---- MODULE Spec2Model ----
(***************************************************************************)
(* Model of the orchestration loop of AdversarialBugFixing.py: main(), the *)
(* rotation policy get_next_bug_checker(), the scoring functions and the   *)
(* ledger tables written by the store_* functions.  The agents (BaseLLM    *)
(* subclasses) and the Docker sandbox are modelled at their call boundary: *)
(* a call returns any value its signature allows (Optional[str], bool, or  *)
(* an exception where the caller distinguishes one).                       *)
(***************************************************************************)
EXTENDS Integers, Sequences, FiniteSets, TLC

\* ---------------------------------------------------------------- bounds
MaxIter == 2
MaxChecks == 2
MaxPool == 2
\* The detection and optional-stage calls a configuration may schedule in
\* one run: iteration_limit * (bug_checks_per_iteration + enabled stages).
MaxWork == 6
\* The log records of one run of the logging model.
MaxLogs == 4

\* ------------------------------------------------------ program constants
EXIT_SUCCESS == 0
EXIT_FAILURE == 1
EXIT_DOCKER_UNAVAILABLE == 2

LLM_ROTATION_FIXED == "fixed"
LLM_ROTATION_RANDOM == "random"
LLM_ROTATION_ROUND_ROBIN == "round_robin"

\* Scores are kept in tenths of a point (96.5 is 965).
CODE_QUALITY_INITIAL_SCORE == 1000
LongLinePenalty == 5
MissingDocstringPenalty == 20
MissingCommentPenalty == 10
LongLineLimit == 80
PerformancePass == 1000
PerformanceIssues == 500
DocumentationPass == 1000
DocumentationIssues == 700

\* Python's None where a score is passed to store_code_version, and the
\* state of a local that no assignment has bound yet.
NoneScore == -1
Unbound == -2
\* main() has not returned.
NoExit == -1

\* ------------------------------------------------------- Optional[str]
\* A str is the sequence of its lines (str.splitlines()); the empty string
\* has no lines.  None is a value of its own.
None == [isNone |-> TRUE, lines |-> <<>>]
Str(ls) == [isNone |-> FALSE, lines |-> ls]
EmptyStr == Str(<<>>)

\* Python truthiness of an Optional[str]: None and "" are falsy.
Truthy(s) == ~s.isNone /\ s.lines # <<>>
Falsy(s) == ~Truthy(s)

\* A line of code text: its length, whether its stripped form starts with
\* three double quotes, whether it holds a '#', and how many of the keywords
\* "if ", "for ", "while " it holds.
Line(n, d, h, k) == [len |-> n, doc |-> d, hash |-> h, kw |-> k]

\* The code texts the agents of this model hand back.
TextA == << Line(0, FALSE, FALSE, 0), Line(14, FALSE, FALSE, 0),
            Line(27, TRUE, FALSE, 0), Line(16, FALSE, FALSE, 0) >>
TextB == << Line(22, FALSE, TRUE, 0), Line(27, TRUE, FALSE, 0),
            Line(90, FALSE, FALSE, 1) >>
Texts == {TextA, TextB}

\* The findings of a bug report, one severity tag per line ("None" when the
\* line carries no tag).
Reports == { <<"Major">> }

VARIABLES
    config,                  \* the configuration main() reads (lines 653-666)
    feature_request,         \* main()'s argument
    bug_check_llms,          \* the detector pool, by name
    pc,                      \* where main() stands
    code,                    \* the current artifact
    i, check_num,            \* the loop variables
    bug_checker_index,       \* the rotation cursor
    bug_checker,             \* the detector selected last
    bug_report,              \* what the last detection returned
    quality_score, complexity_score,
    performance_score_val, documentation_score_val,
    docker_result,           \* the sandbox outcome of the step just taken
    stage_report,            \* what the optional stage of the step just taken
                             \* returned (performance_report,
                             \* documentation_report, refactoring_suggestions)
    call_arg,                \* the artifact the detection or fix call of the
                             \* step just taken was given (lines 708, 717)
    exit_code,               \* what main() returned
    exception,               \* the exception that left main(), if any
    code_versions, complexity_metrics, bug_reports,
    performance_checks, documentation_checks, refactorings,   \* ledger tables
    calls,                   \* how often each boundary was called
    log_records,             \* how many log records the handlers were given
    log_tasks,               \* the insert_log tasks created and not yet run
    logs,                    \* the records inserted into the logs table
    rotation_calls           \* the calls of get_next_bug_checker made in a row
                             \* on one pool (RotationSpec): the index passed
                             \* in, the checker and the index returned

ledger == << code_versions, complexity_metrics, bug_reports,
             performance_checks, documentation_checks, refactorings >>
locals == << code, i, check_num, bug_checker_index, bug_checker, bug_report,
             quality_score, complexity_score, performance_score_val,
             documentation_score_val >>
inputs == << config, feature_request, bug_check_llms >>
logging == << log_records, log_tasks, logs >>
vars == << inputs, pc, locals, docker_result, stage_report, call_arg, exit_code,
          exception, ledger, calls, rotation_calls, logging >>

\* ------------------------------------------------------------- scoring
RECURSIVE CountLong(_)
CountLong(ls) ==
    IF ls = <<>> THEN 0
    ELSE (IF Head(ls).len > LongLineLimit THEN 1 ELSE 0) + CountLong(Tail(ls))

RECURSIVE SumKw(_)
SumKw(ls) == IF ls = <<>> THEN 0 ELSE Head(ls).kw + SumKw(Tail(ls))

RECURSIVE SumLen(_)
SumLen(ls) == IF ls = <<>> THEN 0 ELSE Head(ls).len + 1 + SumLen(Tail(ls))

Max(a, b) == IF a >= b THEN a ELSE b
Min(a, b) == IF a <= b THEN a ELSE b

\* calculate_code_quality(code, config) on the lines of code.
calculate_code_quality(ls) ==
    LET s1 == CODE_QUALITY_INITIAL_SCORE - LongLinePenalty * CountLong(ls)
        s2 == IF Len(ls) > 1 /\ ~ls[2].doc THEN s1 - MissingDocstringPenalty ELSE s1
        s3 == IF ~(\E k \in 1..Len(ls) : ls[k].hash)
              THEN s2 - MissingCommentPenalty ELSE s2
    IN  Max(0, Min(s3, CODE_QUALITY_INITIAL_SCORE))

calculate_cyclomatic_complexity(ls) == SumKw(ls) + 1

calculate_halstead_volume(ls) == SumLen(ls) * 2

\* ------------------------------------------------------------ rotation
Strategies == {LLM_ROTATION_FIXED, LLM_ROTATION_RANDOM, LLM_ROTATION_ROUND_ROBIN}

\* Line 646 as a plain else: every other strategy string is taken for
\* round_robin and line 649 is never reached.
RotationRaisesOnEmptyOnly(current_llms, strategy) == current_llms = <<>>

\* get_next_bug_checker raises ValueError (lines 643 and 649).
RotationRaises(current_llms, strategy) ==
    current_llms = <<>> \/ strategy \notin Strategies

\* get_next_bug_checker with line 647 and line 648 swapped in effect: the
\* checker at the incoming index is returned and the index advanced after.
get_next_bug_checker_use_then_advance(current_llms, strategy, current_index) ==
    IF strategy = LLM_ROTATION_FIXED THEN { <<current_llms[1], 0>> }
    ELSE IF strategy = LLM_ROTATION_RANDOM
    THEN { <<current_llms[k], 0>> : k \in 1..Len(current_llms) }
    ELSE { <<current_llms[(current_index % Len(current_llms)) + 1],
             (current_index + 1) % Len(current_llms)>> }

\* get_next_bug_checker returning the index it was given in line 648.
get_next_bug_checker_stale_index(current_llms, strategy, current_index) ==
    IF strategy = LLM_ROTATION_FIXED THEN { <<current_llms[1], 0>> }
    ELSE IF strategy = LLM_ROTATION_RANDOM
    THEN { <<current_llms[k], 0>> : k \in 1..Len(current_llms) }
    ELSE { <<current_llms[((current_index + 1) % Len(current_llms)) + 1],
             current_index>> }

\* get_next_bug_checker handing back, in lines 644 and 645, the index it was
\* given.
get_next_bug_checker_keeps_index(current_llms, strategy, current_index) ==
    IF strategy = LLM_ROTATION_FIXED THEN { <<current_llms[1], current_index>> }
    ELSE IF strategy = LLM_ROTATION_RANDOM
    THEN { <<current_llms[k], current_index>> : k \in 1..Len(current_llms) }
    ELSE LET next_index == (current_index + 1) % Len(current_llms)
         IN  { <<current_llms[next_index + 1], next_index>> }

\* The (checker, index) pairs get_next_bug_checker can return.
get_next_bug_checker(current_llms, strategy, current_index) ==
    IF strategy = LLM_ROTATION_FIXED THEN { <<current_llms[1], 0>> }
    ELSE IF strategy = LLM_ROTATION_RANDOM
    THEN { <<current_llms[k], 0>> : k \in 1..Len(current_llms) }
    ELSE LET next_index == (current_index + 1) % Len(current_llms)
         IN  { <<current_llms[next_index + 1], next_index>> }

\* ------------------------------------------------- what the agents return
\* generate(prompt): the text the generator has for the prompt, or nothing.
GenerateOutputs(prompt) ==
    {None, EmptyStr, Str(IF prompt = "initial_prompt" THEN TextA ELSE TextB)}
CheckBugsOutputs == {None, EmptyStr} \cup {Str(r) : r \in Reports}
FixOutputs(c) == {None, EmptyStr, c} \cup {Str(t) : t \in Texts}
StageOutputs == {None, EmptyStr, Str(<<"issue">>)}

\* ------------------------------------------------------------- Init
AllConfigs ==
    [ iteration_limit : 0..MaxIter,
      feature_addition_round : 1..MaxIter,
      bug_checks_per_iteration : 0..MaxChecks,
      llm_rotation_strategy : Strategies \cup {"bogus"},
      enable_refactoring : BOOLEAN,
      enable_performance_check : BOOLEAN,
      enable_documentation_check : BOOLEAN ]

\* The configurations of the model: those within the work bound.
Flag(b) == IF b THEN 1 ELSE 0
Work(c) ==
    c.iteration_limit * (c.bug_checks_per_iteration
                         + Flag(c.enable_refactoring)
                         + Flag(c.enable_performance_check)
                         + Flag(c.enable_documentation_check))
Configs == { c \in AllConfigs : Work(c) <= MaxWork }

Init ==
    /\ config \in Configs
    /\ feature_request \in {None, Str(<<"subtract">>)}
    /\ bug_check_llms \in { [k \in 1..n |-> k] : n \in 1..MaxPool }
    /\ pc = "generate"
    /\ code = None
    /\ i = 0
    /\ check_num = 0
    /\ bug_checker_index = 0
    /\ bug_checker = 0
    /\ bug_report = None
    /\ quality_score = Unbound
    /\ complexity_score = Unbound
    /\ performance_score_val = Unbound
    /\ documentation_score_val = Unbound
    /\ docker_result = "none"
    /\ stage_report = None
    /\ call_arg = None
    /\ exit_code = NoExit
    /\ exception = "none"
    /\ code_versions = <<>>
    /\ complexity_metrics = <<>>
    /\ bug_reports = <<>>
    /\ performance_checks = <<>>
    /\ documentation_checks = <<>>
    /\ refactorings = <<>>
    /\ calls = [c \in {"generate", "check_bugs", "fix_bugs", "check_performance",
                       "check_documentation", "refactor", "sandbox"} |-> 0]
    /\ rotation_calls = <<>>
    /\ log_records = 0
    /\ log_tasks = {}
    /\ logs = {}

\* ------------------------------------------------- the decisions of main()
\* line 687: if not code
GenerationFailedIsNone(c) == c.isNone
GenerationFailed(c) == Falsy(c)

\* line 709: if bug_report
HasFindingsNotNone(r) == ~r.isNone
HasFindings(r) == Truthy(r)

\* line 718: if not code
FixFailedIsNone(c) == c.isNone
FixFailed(c) == Falsy(c)

\* The severity of the first finding of the report alone.
SeverityOfFirstFinding(r) ==
    IF r.lines[1] \in {"Major", "Minor", "Info"} THEN r.lines[1] ELSE "Unknown"

\* lines 712-715: the severity stored with a bug report.
Severity(r) ==
    IF \E k \in 1..Len(r.lines) : r.lines[k] = "Major" THEN "Major"
    ELSE IF \E k \in 1..Len(r.lines) : r.lines[k] = "Minor" THEN "Minor"
    ELSE IF \E k \in 1..Len(r.lines) : r.lines[k] = "Info" THEN "Info"
    ELSE "Unknown"

\* Line 749 without its test of feature_request.
FeatureDueWithoutRequest(iter) ==
    (iter + 1) = config.feature_addition_round

\* line 749: (i + 1) == feature_addition_round and feature_request
FeatureDue(iter) ==
    (iter + 1) = config.feature_addition_round /\ Truthy(feature_request)

\* The stages that follow the detection rounds of an iteration, in the order
\* of lines 722-761, and whether main() enters each.
StagesDocumentationFirst ==
    << "documentation", "performance", "refactor", "feature", "sandbox" >>
Stages == << "performance", "documentation", "refactor", "feature", "sandbox" >>

StageEntered(stage, iter) ==
    CASE stage = "performance" -> config.enable_performance_check
      [] stage = "documentation" -> config.enable_documentation_check
      [] stage = "refactor" -> config.enable_refactoring
      [] stage = "feature" -> FeatureDue(iter)
      [] OTHER -> TRUE

\* The first stage at or after position k that main() enters.
RECURSIVE StageFrom(_, _)
StageFrom(k, iter) ==
    IF StageEntered(Stages[k], iter) THEN Stages[k] ELSE StageFrom(k + 1, iter)

\* line 693: for i in range(iteration_limit)
IterationsLeftShort(n) == n + 1 < config.iteration_limit
IterationsLeft(n) == n < config.iteration_limit

\* line 704: for check_num in range(bug_checks_per_iteration)
ChecksLeft(n) == n < config.bug_checks_per_iteration

Called(c) == calls' = [calls EXCEPT ![c] = @ + 1]

\* main() returns status.
Return(status) ==
    /\ pc' = "returned"
    /\ exit_code' = status
    /\ exception' = exception

\* An exception leaves main() unhandled.
Raise(e) ==
    /\ pc' = "raised"
    /\ exception' = e
    /\ exit_code' = exit_code

Goto(l) ==
    /\ pc' = l
    /\ UNCHANGED << exit_code, exception >>

\* The end of one pass of the detection loop (line 704).
NextCheck ==
    IF ChecksLeft(check_num + 1)
    THEN check_num' = check_num + 1 /\ Goto("detect")
    ELSE check_num' = check_num /\ Goto(StageFrom(1, i))

\* ------------------------------------------------------------- actions
\* store_code_version as an "INSERT OR REPLACE" keyed by the iteration: the
\* row of the iteration written before is replaced.
store_code_version_upsert(rows, rec) ==
    Append(SelectSeq(rows, LAMBDA r : r.iteration # rec.iteration), rec)

\* lines 565-572: store_code_version inserts one row.
store_code_version(rows, rec) == Append(rows, rec)

\* lines 686-691: the initial generation.
Generate ==
    /\ pc = "generate"
    /\ docker_result' = "none"
    /\ stage_report' = None
    /\ call_arg' = None
    /\ Called("generate")
    /\ \E out \in GenerateOutputs("initial_prompt") :
        /\ code' = out
        /\ IF GenerationFailed(out) THEN Return(EXIT_FAILURE)
           ELSE IF IterationsLeft(0) THEN Goto("score")
           ELSE Goto("complete")
    /\ bug_checker_index' = 0
    /\ i' = 0
    /\ UNCHANGED << logging, rotation_calls, inputs, ledger, check_num, bug_checker, bug_report,
                    quality_score, complexity_score, performance_score_val,
                    documentation_score_val >>

\* lines 694-702: score the artifact and write the version record.
\* calculate_code_quality(None) raises AttributeError at splitlines().
Score ==
    /\ pc = "score"
    /\ docker_result' = "none"
    /\ stage_report' = None
    /\ call_arg' = None
    /\ IF code.isNone
       THEN /\ Raise("AttributeError")
            /\ UNCHANGED << ledger, quality_score, complexity_score, check_num >>
       ELSE /\ quality_score' = calculate_code_quality(code.lines)
            /\ complexity_score' = calculate_cyclomatic_complexity(code.lines)
            /\ code_versions' = store_code_version(code_versions,
                   [iteration |-> i + 1, code |-> code,
                    quality_score |-> quality_score',
                    complexity_score |-> complexity_score',
                    performance_score |-> NoneScore,
                    documentation_score |-> NoneScore])
            /\ complexity_metrics' = Append(complexity_metrics,
                   [iteration |-> i + 1,
                    cyclomatic_complexity |-> complexity_score',
                    halstead_volume |-> calculate_halstead_volume(code.lines)])
            /\ IF ChecksLeft(0)
               THEN check_num' = 0 /\ Goto("detect")
               ELSE check_num' = check_num /\ Goto(StageFrom(1, i))
            /\ UNCHANGED << bug_reports, performance_checks,
                            documentation_checks, refactorings >>
    /\ UNCHANGED << logging, rotation_calls, inputs, code, i, bug_checker_index, bug_checker, bug_report,
                    performance_score_val, documentation_score_val,
                    calls >>

\* The fix call given the artifact the iteration started with, as the version
\* record of line 699 holds it.
FixArgumentScored ==
    IF code_versions = << >> THEN code
    ELSE code_versions[Len(code_versions)].code

\* line 708: check_bugs(code), and line 717: fix_bugs(code, bug_report): the
\* argument is the current artifact.
DetectArgument == code
FixArgument == code

\* line 705 without its third argument: current_index takes its default, 0.
SelectDefaultIndex ==
    \E sel \in get_next_bug_checker(bug_check_llms,
                   config.llm_rotation_strategy, 0) :
        /\ bug_checker' = sel[1]
        /\ bug_checker_index' = sel[2]

\* line 705: bug_checker, bug_checker_index = get_next_bug_checker(...),
\* where the call returns.
Select ==
    \E sel \in get_next_bug_checker(bug_check_llms,
                   config.llm_rotation_strategy, bug_checker_index) :
        /\ bug_checker' = sel[1]
        /\ bug_checker_index' = sel[2]

\* lines 705-716: select a detector, run it, store its report.
Detect ==
    /\ pc = "detect"
    /\ docker_result' = "none"
    /\ stage_report' = None
    /\ IF RotationRaises(bug_check_llms, config.llm_rotation_strategy)
       THEN /\ Raise("ValueError")
            /\ call_arg' = None
            /\ UNCHANGED << bug_checker, bug_checker_index, bug_report,
                            bug_reports, check_num, calls, rotation_calls >>
       ELSE /\ Select
            /\ call_arg' = DetectArgument
            /\ rotation_calls' = rotation_calls
            /\ Called("check_bugs")
            /\ \E out \in CheckBugsOutputs :
                /\ bug_report' = out
                /\ IF HasFindings(out)
                   THEN /\ bug_reports' = Append(bug_reports,
                               [iteration |-> i + 1, report |-> out,
                                check_number |-> check_num + 1,
                                llm_name |-> bug_checker',
                                severity |-> Severity(out)])
                        /\ check_num' = check_num
                        /\ Goto("fix")
                   ELSE /\ bug_reports' = bug_reports
                        /\ NextCheck
    /\ UNCHANGED << logging, inputs, code, i, quality_score, complexity_score,
                    performance_score_val, documentation_score_val,
                    code_versions, complexity_metrics,
                    performance_checks, documentation_checks, refactorings >>

\* lines 717-720: the fix call.
Fix ==
    /\ pc = "fix"
    /\ docker_result' = "none"
    /\ stage_report' = None
    /\ call_arg' = FixArgument
    /\ Called("fix_bugs")
    /\ \E out \in FixOutputs(FixArgument) :
        /\ code' = out
        /\ IF FixFailed(out)
           THEN Return(EXIT_FAILURE) /\ check_num' = check_num
           ELSE NextCheck
    /\ UNCHANGED << logging, rotation_calls, inputs, ledger, i, bug_checker_index, bug_checker,
                    bug_report, quality_score, complexity_score,
                    performance_score_val, documentation_score_val >>

\* line 725 with "performance_report is None" for "not performance_report".
PerformanceScoreIsNone(report) ==
    IF report.isNone THEN PerformancePass ELSE PerformanceIssues

\* line 725 and line 735: the two-valued scores.
PerformanceScore(report) ==
    IF ~Truthy(report) THEN PerformancePass ELSE PerformanceIssues

DocumentationScore(report) ==
    IF ~Truthy(report) THEN DocumentationPass ELSE DocumentationIssues

\* "report or <text>" of lines 726 and 736.
OrDefault(report, text) == IF Truthy(report) THEN report ELSE Str(<<text>>)

\* A local passed as an argument: its value where bound (a bound local can
\* hold None only through NoneScore).
VersionRecord(perf, doc) ==
    [iteration |-> i + 1, code |-> code,
     quality_score |-> quality_score,
     complexity_score |-> complexity_score,
     performance_score |-> perf,
     documentation_score |-> doc]

\* lines 722-729: the performance stage.
Performance ==
    /\ pc = "performance"
    /\ docker_result' = "none"
    /\ Called("check_performance")
    /\ \E performance_report \in StageOutputs :
        /\ stage_report' = performance_report
        /\ call_arg' = None
        /\ performance_score_val' = PerformanceScore(performance_report)
        /\ performance_checks' = Append(performance_checks,
               [iteration |-> i + 1,
                report |-> OrDefault(performance_report,
                                     "No performance issues detected.")])
        /\ code_versions' = store_code_version(code_versions,
               VersionRecord(performance_score_val', NoneScore))
    /\ Goto(StageFrom(2, i))
    /\ UNCHANGED << logging, rotation_calls, inputs, code, i, check_num, bug_checker_index, bug_checker,
                    bug_report, quality_score, complexity_score,
                    documentation_score_val,
                    complexity_metrics, bug_reports, documentation_checks,
                    refactorings >>

\* lines 732-739: the documentation stage.  Line 737 reads
\* performance_score_val, which is bound only by line 725: with no
\* performance stage run so far the read raises UnboundLocalError, after the
\* write of line 736.
Documentation ==
    /\ pc = "documentation"
    /\ docker_result' = "none"
    /\ Called("check_documentation")
    /\ \E documentation_report \in StageOutputs :
        /\ stage_report' = documentation_report
        /\ call_arg' = None
        /\ documentation_score_val' = DocumentationScore(documentation_report)
        /\ documentation_checks' = Append(documentation_checks,
               [iteration |-> i + 1,
                report |-> OrDefault(documentation_report,
                                     "Documentation check passed.")])
    /\ IF performance_score_val = Unbound
       THEN /\ Raise("UnboundLocalError")
            /\ code_versions' = code_versions
       ELSE /\ code_versions' = store_code_version(code_versions,
                   VersionRecord(performance_score_val, documentation_score_val'))
            /\ Goto(StageFrom(3, i))
    /\ UNCHANGED << logging, rotation_calls, inputs, code, i, check_num, bug_checker_index, bug_checker,
                    bug_report, quality_score, complexity_score,
                    performance_score_val,
                    complexity_metrics, bug_reports, performance_checks,
                    refactorings >>

\* The refactoring stage with its suggestions taken as the new artifact.
RefactorApplied ==
    /\ pc = "refactor"
    /\ docker_result' = "none"
    /\ Called("refactor")
    /\ \E refactoring_suggestions \in StageOutputs :
        /\ stage_report' = refactoring_suggestions
        /\ call_arg' = None
        /\ IF Truthy(refactoring_suggestions)
           THEN /\ refactorings' = Append(refactorings,
                       [iteration |-> i + 1,
                        suggestions |-> refactoring_suggestions])
                /\ code' = refactoring_suggestions
           ELSE /\ refactorings' = refactorings
                /\ code' = code
    /\ Goto(StageFrom(4, i))
    /\ UNCHANGED << logging, rotation_calls, inputs, i, check_num, bug_checker_index,
                    bug_checker, bug_report, quality_score, complexity_score,
                    performance_score_val, documentation_score_val,
                    code_versions, complexity_metrics,
                    bug_reports, performance_checks, documentation_checks >>

\* lines 742-747: the refactoring stage.
Refactor ==
    /\ pc = "refactor"
    /\ docker_result' = "none"
    /\ Called("refactor")
    /\ \E refactoring_suggestions \in StageOutputs :
        /\ stage_report' = refactoring_suggestions
        /\ call_arg' = None
        /\ refactorings' =
              IF Truthy(refactoring_suggestions)
              THEN Append(refactorings, [iteration |-> i + 1,
                                         suggestions |-> refactoring_suggestions])
              ELSE refactorings
    /\ Goto(StageFrom(4, i))
    /\ UNCHANGED << logging, rotation_calls, inputs, locals, code_versions, complexity_metrics,
                    bug_reports, performance_checks, documentation_checks >>

\* lines 749-753: feature injection.  The result of generate() is assigned to
\* code before it is tested.
Feature ==
    /\ pc = "feature"
    /\ docker_result' = "none"
    /\ stage_report' = None
    /\ call_arg' = None
    /\ Called("generate")
    /\ \E out \in GenerateOutputs("feature_request") : code' = out
    /\ Goto("sandbox")
    /\ UNCHANGED << logging, rotation_calls, inputs, ledger, i, check_num, bug_checker_index,
                    bug_checker, bug_report, quality_score, complexity_score,
                    performance_score_val, documentation_score_val >>

\* What run_code_in_docker(code, ...) can return: every exception inside it
\* is caught and gives False (lines 496-506), and temp_file.write(None)
\* raises TypeError.
run_code_in_docker(c) == IF c.isNone THEN {FALSE} ELSE BOOLEAN

\* The end of one pass of the iteration loop (line 693).
NextIterationIfOk ==
    IF IterationsLeft(i + 1) /\ docker_result' # "failed"
    THEN i' = i + 1 /\ Goto("score")
    ELSE i' = i /\ Goto("complete")
NextIteration ==
    IF IterationsLeft(i + 1)
    THEN i' = i + 1 /\ Goto("score")
    ELSE i' = i /\ Goto("complete")

\* line 761: the status returned on docker.errors.DockerException.
UnavailableStatusFailure == EXIT_FAILURE
UnavailableStatus == EXIT_DOCKER_UNAVAILABLE

\* lines 755-761: the sandbox step.  docker.from_env() of line 756 raises
\* DockerException when the backend is unavailable.
Sandbox ==
    /\ pc = "sandbox"
    /\ stage_report' = None
    /\ call_arg' = None
    /\ \/ /\ docker_result' = "unavailable"
          /\ Return(UnavailableStatus)
          /\ UNCHANGED << i, calls >>
       \/ /\ Called("sandbox")
          /\ \E ok \in run_code_in_docker(code) :
                docker_result' = IF ok THEN "ok" ELSE "failed"
          /\ NextIteration
    /\ UNCHANGED << logging, rotation_calls, inputs, ledger, code, check_num, bug_checker_index,
                    bug_checker, bug_report, quality_score, complexity_score,
                    performance_score_val, documentation_score_val >>

\* lines 763-765: the loop is over.
Complete ==
    /\ pc = "complete"
    /\ docker_result' = "none"
    /\ stage_report' = None
    /\ call_arg' = None
    /\ Return(EXIT_SUCCESS)
    /\ UNCHANGED << logging, rotation_calls, inputs, locals, ledger, calls >>

Next ==
    \/ Generate
    \/ Score
    \/ Detect
    \/ Fix
    \/ Performance
    \/ Documentation
    \/ Refactor
    \/ Feature
    \/ Sandbox
    \/ Complete

Spec == Init /\ [][Next]_vars

\* ------------------------------------- get_next_bug_checker on its own
\* The calls made in a row on one pool and strategy.
MaxCalls == 2 * MaxPool + 1

\* The arguments of the first call: any pool (the empty one included), any
\* strategy string, any index from 0 to one past the largest pool.
RotationInit ==
    /\ config \in { c \in AllConfigs :
                       /\ c.iteration_limit = 0
                       /\ c.feature_addition_round = 1
                       /\ c.bug_checks_per_iteration = 0
                       /\ ~c.enable_refactoring
                       /\ ~c.enable_performance_check
                       /\ ~c.enable_documentation_check }
    /\ feature_request = None
    /\ bug_check_llms \in { [k \in 1..n |-> k] : n \in 0..MaxPool }
    /\ bug_checker_index \in 0..MaxPool
    /\ pc = "detect"
    /\ code = None
    /\ i = 0
    /\ check_num = 0
    /\ bug_checker = 0
    /\ bug_report = None
    /\ quality_score = Unbound
    /\ complexity_score = Unbound
    /\ performance_score_val = Unbound
    /\ documentation_score_val = Unbound
    /\ docker_result = "none"
    /\ stage_report = None
    /\ call_arg = None
    /\ exit_code = NoExit
    /\ exception = "none"
    /\ code_versions = <<>>
    /\ complexity_metrics = <<>>
    /\ bug_reports = <<>>
    /\ performance_checks = <<>>
    /\ documentation_checks = <<>>
    /\ refactorings = <<>>
    /\ calls = [c \in {"generate", "check_bugs", "fix_bugs", "check_performance",
                       "check_documentation", "refactor", "sandbox"} |-> 0]
    /\ rotation_calls = <<>>
    /\ log_records = 0
    /\ log_tasks = {}
    /\ logs = {}

\* One call of get_next_bug_checker (lines 642-649), its result assigned as
\* in line 705.
SelectNext ==
    /\ pc = "detect"
    /\ Len(rotation_calls) < MaxCalls
    /\ IF RotationRaises(bug_check_llms, config.llm_rotation_strategy)
       THEN /\ Raise("ValueError")
            /\ UNCHANGED << bug_checker, bug_checker_index, rotation_calls >>
       ELSE /\ Select
            /\ rotation_calls' = Append(rotation_calls,
                   [current_index |-> bug_checker_index,
                    checker |-> bug_checker', index |-> bug_checker_index'])
            /\ Goto("detect")
    /\ UNCHANGED << logging, inputs, ledger, calls, docker_result, stage_report, call_arg, code,
                    i, check_num,
                    bug_report, quality_score, complexity_score,
                    performance_score_val, documentation_score_val >>

RotationNext == SelectNext

RotationSpec == RotationInit /\ [][RotationNext]_vars

\* ------------------------------------- agent calls that do not return
\* The local a call site of main() awaits: the key of its boundary in calls.
AgentCallAt(p) ==
    CASE p \in {"generate", "feature"} -> "generate"
      [] p = "detect" -> "check_bugs"
      [] p = "fix" -> "fix_bugs"
      [] p = "performance" -> "check_performance"
      [] p = "documentation" -> "check_documentation"
      [] OTHER -> "refactor"

\* An agent call awaited by main() (lines 686, 708, 717, 724, 734, 744, 751)
\* that never returns.  main() awaits the coroutine itself: call_timeout is
\* stored by BaseLLM.__init__ (line 105) and no await is wrapped in a
\* timeout, so main() stays suspended at the call.
AwaitForever ==
    /\ pc \in {"generate", "detect", "fix", "performance", "documentation",
               "refactor", "feature"}
    /\ pc = "detect" =>
          ~RotationRaises(bug_check_llms, config.llm_rotation_strategy)
    /\ IF pc = "detect" THEN Select
       ELSE UNCHANGED << bug_checker, bug_checker_index >>
    /\ Called(AgentCallAt(pc))
    /\ Goto("awaiting")
    /\ docker_result' = "none"
    /\ stage_report' = None
    /\ call_arg' = CASE pc = "detect" -> DetectArgument
                    [] pc = "fix" -> FixArgument
                    [] OTHER -> None
    /\ UNCHANGED << logging, rotation_calls, inputs, ledger, code, i, check_num,
                    bug_report, quality_score, complexity_score,
                    performance_score_val, documentation_score_val >>

AwaitNext == Next \/ AwaitForever

AwaitSpec == Init /\ [][AwaitNext]_vars

\* ------------------------------------------- the logs table and the loop
\* main() as the event loop sees it: "running" while it executes between
\* two awaits, "suspended" at an await, when the loop runs the other tasks.
LogInit ==
    /\ config \in { c \in AllConfigs :
                       /\ c.iteration_limit = 0
                       /\ c.feature_addition_round = 1
                       /\ c.bug_checks_per_iteration = 0
                       /\ c.llm_rotation_strategy = LLM_ROTATION_FIXED
                       /\ ~c.enable_refactoring
                       /\ ~c.enable_performance_check
                       /\ ~c.enable_documentation_check }
    /\ feature_request = None
    /\ bug_check_llms = <<1>>
    /\ bug_checker_index = 0
    /\ pc = "running"
    /\ code = None
    /\ i = 0
    /\ check_num = 0
    /\ bug_checker = 0
    /\ bug_report = None
    /\ quality_score = Unbound
    /\ complexity_score = Unbound
    /\ performance_score_val = Unbound
    /\ documentation_score_val = Unbound
    /\ docker_result = "none"
    /\ stage_report = None
    /\ call_arg = None
    /\ exit_code = NoExit
    /\ exception = "none"
    /\ code_versions = <<>>
    /\ complexity_metrics = <<>>
    /\ bug_reports = <<>>
    /\ performance_checks = <<>>
    /\ documentation_checks = <<>>
    /\ refactorings = <<>>
    /\ calls = [c \in {"generate", "check_bugs", "fix_bugs", "check_performance",
                       "check_documentation", "refactor", "sandbox"} |-> 0]
    /\ rotation_calls = <<>>
    /\ log_records = 0
    /\ log_tasks = {}
    /\ logs = {}

LogFrame ==
    UNCHANGED << inputs, locals, docker_result, stage_report, call_arg, ledger, calls,
                 rotation_calls >>

\* DatabaseHandler.emit (lines 70-81): the record is handed to a new task,
\* asyncio.create_task(insert_log()), of which no reference is kept.
emit ==
    /\ log_records' = log_records + 1
    /\ log_tasks' = log_tasks \cup {log_records + 1}

\* A logger.info or logger.error call of main() that an await follows.
Log ==
    /\ pc = "running"
    /\ log_records < MaxLogs
    /\ emit
    /\ logs' = logs
    /\ Goto("running")
    /\ LogFrame

\* main() reaches an await (an agent call, a store_* call).
MainAwaits ==
    /\ pc = "running"
    /\ Goto("suspended")
    /\ UNCHANGED logging
    /\ LogFrame

\* The awaited call is done and the loop resumes main().
MainResumes ==
    /\ pc = "suspended"
    /\ Goto("running")
    /\ UNCHANGED logging
    /\ LogFrame

\* insert_log (lines 71-80) run by the loop while main() is suspended.
insert_log ==
    /\ pc = "suspended"
    /\ \E t \in log_tasks :
        /\ log_tasks' = log_tasks \ {t}
        /\ logs' = logs \cup {t}
    /\ log_records' = log_records
    /\ Goto("suspended")
    /\ LogFrame

\* What asyncio.run (line 778) does with the tasks still pending when
\* main() returns: it cancels them, and a cancelled insert_log inserts
\* nothing.
CancelPending ==
    /\ log_tasks' = {}
    /\ logs' = logs

\* A return of main(): each one (lines 688-689, 719-720, 760-761, 763-765)
\* comes right after a log call, with no await between the two, and
\* asyncio.run then shuts the loop down.
MainReturns ==
    /\ pc = "running"
    /\ log_records' = log_records + 1
    /\ CancelPending
    /\ \E status \in {EXIT_SUCCESS, EXIT_FAILURE, EXIT_DOCKER_UNAVAILABLE} :
          Return(status)
    /\ LogFrame

LogNext ==
    \/ Log
    \/ MainAwaits
    \/ MainResumes
    \/ insert_log
    \/ MainReturns

LogSpec == LogInit /\ [][LogNext]_vars

\* --------------------------------------- the scoring functions on their own
\* The longest text scored.
MaxLines == 3

\* The kinds of line of the texts scored: an empty line, a plain line, a
\* line that opens a docstring, a line with a comment, a line of more than
\* 80 characters with one keyword.
LineKinds ==
    { Line(0, FALSE, FALSE, 0), Line(27, FALSE, FALSE, 0),
      Line(27, TRUE, FALSE, 0), Line(22, FALSE, TRUE, 0),
      Line(90, FALSE, FALSE, 1) }

ScoredTexts == UNION { [1..n -> LineKinds] : n \in 0..MaxLines }

ScoreInit ==
    /\ config \in { c \in AllConfigs :
                       /\ c.iteration_limit = 0
                       /\ c.feature_addition_round = 1
                       /\ c.bug_checks_per_iteration = 0
                       /\ c.llm_rotation_strategy = LLM_ROTATION_FIXED
                       /\ ~c.enable_refactoring
                       /\ ~c.enable_performance_check
                       /\ ~c.enable_documentation_check }
    /\ feature_request = None
    /\ bug_check_llms = <<1>>
    /\ bug_checker_index = 0
    /\ pc = "score"
    /\ code \in { Str(ls) : ls \in ScoredTexts }
    /\ i = 0
    /\ check_num = 0
    /\ bug_checker = 0
    /\ bug_report = None
    /\ quality_score = Unbound
    /\ complexity_score = Unbound
    /\ performance_score_val = Unbound
    /\ documentation_score_val = Unbound
    /\ docker_result = "none"
    /\ stage_report = None
    /\ call_arg = None
    /\ exit_code = NoExit
    /\ exception = "none"
    /\ code_versions = <<>>
    /\ complexity_metrics = <<>>
    /\ bug_reports = <<>>
    /\ performance_checks = <<>>
    /\ documentation_checks = <<>>
    /\ refactorings = <<>>
    /\ calls = [c \in {"generate", "check_bugs", "fix_bugs", "check_performance",
                       "check_documentation", "refactor", "sandbox"} |-> 0]
    /\ rotation_calls = <<>>
    /\ log_records = 0
    /\ log_tasks = {}
    /\ logs = {}

\* lines 697-698: the scoring functions applied to a text.
ScoreText ==
    /\ pc = "score"
    /\ quality_score' = calculate_code_quality(code.lines)
    /\ complexity_score' = calculate_cyclomatic_complexity(code.lines)
    /\ Goto("scored")
    /\ UNCHANGED << logging, rotation_calls, inputs, ledger, calls,
                    docker_result, stage_report, call_arg, code, i, check_num,
                    bug_checker_index, bug_checker, bug_report,
                    performance_score_val, documentation_score_val >>

ScoreNext == ScoreText

ScoreSpec == ScoreInit /\ [][ScoreNext]_vars

\* ------------------------------------ the severity of a report on its own
\* The most findings in a report.
MaxFindings == 3

\* The tag a finding carries ("None" when it carries none).
Tags == {"Major", "Minor", "Info", "None"}

TaggedReports == UNION { [1..n -> Tags] : n \in 1..MaxFindings }

SeverityInit ==
    /\ config \in { c \in AllConfigs :
                       /\ c.iteration_limit = 1
                       /\ c.feature_addition_round = 1
                       /\ c.bug_checks_per_iteration = 1
                       /\ c.llm_rotation_strategy = LLM_ROTATION_FIXED
                       /\ ~c.enable_refactoring
                       /\ ~c.enable_performance_check
                       /\ ~c.enable_documentation_check }
    /\ feature_request = None
    /\ bug_check_llms = <<1>>
    /\ bug_checker_index = 0
    /\ pc = "report"
    /\ code = Str(TextA)
    /\ i = 0
    /\ check_num = 0
    /\ bug_checker = 1
    /\ bug_report \in {None, EmptyStr} \cup { Str(r) : r \in TaggedReports }
    /\ quality_score = Unbound
    /\ complexity_score = Unbound
    /\ performance_score_val = Unbound
    /\ documentation_score_val = Unbound
    /\ docker_result = "none"
    /\ stage_report = None
    /\ call_arg = None
    /\ exit_code = NoExit
    /\ exception = "none"
    /\ code_versions = <<>>
    /\ complexity_metrics = <<>>
    /\ bug_reports = <<>>
    /\ performance_checks = <<>>
    /\ documentation_checks = <<>>
    /\ refactorings = <<>>
    /\ calls = [c \in {"generate", "check_bugs", "fix_bugs", "check_performance",
                       "check_documentation", "refactor", "sandbox"} |-> 0]
    /\ rotation_calls = <<>>
    /\ log_records = 0
    /\ log_tasks = {}
    /\ logs = {}

\* lines 709-716: the report check_bugs returned is stored with its severity.
StoreReport ==
    /\ pc = "report"
    /\ bug_reports' =
          IF HasFindings(bug_report)
          THEN Append(bug_reports,
                      [iteration |-> i + 1, report |-> bug_report,
                       check_number |-> check_num + 1,
                       llm_name |-> bug_checker,
                       severity |-> Severity(bug_report)])
          ELSE bug_reports
    /\ Goto("stored")
    /\ UNCHANGED << logging, rotation_calls, inputs, locals, calls,
                    docker_result, stage_report, call_arg, code_versions,
                    complexity_metrics, performance_checks,
                    documentation_checks, refactorings >>

SeverityNext == StoreReport

SeveritySpec == SeverityInit /\ [][SeverityNext]_vars

\* ------------------------------------------- MockLLMFix.fix_bugs on its own
\* A text with its line ends: its lines, and whether a line end follows the
\* last of them.  str.splitlines() gives the lines; "\n".join(lines) gives
\* the text of these lines with no line end after the last.
Text(ls, nl) == [isNone |-> FALSE, lines |-> ls, newline |-> nl]
splitlines(t) == t.lines
join(ls) == Text(ls, FALSE)

\* The texts handed to fix_bugs.
FixTexts ==
    { Text(ls, nl) :
        ls \in UNION { [1..n -> { Line(27, FALSE, FALSE, 0),
                                  Line(22, FALSE, TRUE, 0) }] : n \in 0..MaxLines },
        nl \in BOOLEAN }

\* The lines of a bug report as fix_bugs reads them (lines 285-307): a
\* "Missing docstring" or a "Missing output" finding with its line number,
\* or a line that matches none of the patterns.
BugLines ==
    { [kind |-> k, line |-> n] : k \in {"docstring", "output"}, n \in 1..2 }
       \cup { [kind |-> "other", line |-> 0] }

FixReports == { Str(r) : r \in UNION { [1..n -> BugLines] : n \in 0..MaxFindings } }

\* list.insert(line_num, x), line_num counted from 0.
Insert(ls, line_num, x) ==
    SubSeq(ls, 1, line_num) \o <<x>> \o SubSeq(ls, line_num + 1, Len(ls))

\* lines 285-307: one pass of the loop over the bugs; st holds the locals
\* lines and fixed_code.
FixOne(st, bug) ==
    LET line_num == IF 0 <= bug.line - 1 /\ bug.line - 1 < Len(st.lines)
                    THEN bug.line - 1 ELSE -1
    IN  IF bug.kind = "docstring" /\ line_num # -1
        THEN LET ls == Insert(st.lines, line_num, Line(30, TRUE, FALSE, 0))
             IN  [lines |-> ls, fixed_code |-> join(ls)]
        ELSE IF bug.kind = "output" /\ line_num # -1
        THEN LET ls == Append(st.lines, Line(19, FALSE, FALSE, 0))
             IN  [lines |-> ls, fixed_code |-> join(ls)]
        ELSE st

RECURSIVE FixAll(_, _)
FixAll(st, bugs) ==
    IF bugs = <<>> THEN st ELSE FixAll(FixOne(st, Head(bugs)), Tail(bugs))

\* random.shuffle(bugs_list) of line 282: every order of the list.
Shuffles(s) ==
    { [k \in 1..Len(s) |-> s[f[k]]] :
        f \in { g \in [1..Len(s) -> 1..Len(s)] :
                  \A a, b \in 1..Len(s) : g[a] = g[b] => a = b } }

\* fix_bugs ending in 'return "\n".join(lines)'.
fix_bugs_rejoined(c, report) ==
    { join(FixAll([lines |-> splitlines(c), fixed_code |-> c], bugs).lines) :
        bugs \in Shuffles(splitlines(report)) }

\* lines 279-356: what fix_bugs returns when the failure is not simulated.
fix_bugs(c, report) ==
    { FixAll([lines |-> splitlines(c), fixed_code |-> c], bugs).fixed_code :
        bugs \in Shuffles(splitlines(report)) }

FixInit ==
    /\ config \in { c \in AllConfigs :
                       /\ c.iteration_limit = 1
                       /\ c.feature_addition_round = 1
                       /\ c.bug_checks_per_iteration = 1
                       /\ c.llm_rotation_strategy = LLM_ROTATION_FIXED
                       /\ ~c.enable_refactoring
                       /\ ~c.enable_performance_check
                       /\ ~c.enable_documentation_check }
    /\ feature_request = None
    /\ bug_check_llms = <<1>>
    /\ bug_checker_index = 0
    /\ pc = "fix_bugs"
    /\ code \in FixTexts
    /\ i = 0
    /\ check_num = 0
    /\ bug_checker = 1
    /\ bug_report \in FixReports
    /\ quality_score = Unbound
    /\ complexity_score = Unbound
    /\ performance_score_val = Unbound
    /\ documentation_score_val = Unbound
    /\ docker_result = "none"
    /\ stage_report = None
    /\ call_arg = None
    /\ exit_code = NoExit
    /\ exception = "none"
    /\ code_versions = <<>>
    /\ complexity_metrics = <<>>
    /\ bug_reports = <<>>
    /\ performance_checks = <<>>
    /\ documentation_checks = <<>>
    /\ refactorings = <<>>
    /\ calls = [c \in {"generate", "check_bugs", "fix_bugs", "check_performance",
                       "check_documentation", "refactor", "sandbox"} |-> 0]
    /\ rotation_calls = <<>>
    /\ log_records = 0
    /\ log_tasks = {}
    /\ logs = {}

FixFrame ==
    UNCHANGED << logging, rotation_calls, inputs, ledger, docker_result,
                 stage_report, call_arg, i, check_num, bug_checker_index, bug_checker,
                 bug_report, quality_score, complexity_score,
                 performance_score_val, documentation_score_val >>

\* lines 275-277: the simulated failure, random.random() < failure_rate.
FixBugsSimulatedFailure ==
    /\ pc = "fix_bugs"
    /\ Called("fix_bugs")
    /\ code' = code
    /\ Goto("failure_simulated")
    /\ FixFrame

\* lines 279-356: the normal path.
FixBugsNormal ==
    /\ pc = "fix_bugs"
    /\ Called("fix_bugs")
    /\ \E out \in fix_bugs(code, bug_report) : code' = out
    /\ Goto("fixed")
    /\ FixFrame

FixNext ==
    \/ FixBugsSimulatedFailure
    \/ FixBugsNormal

FixSpec == FixInit /\ [][FixNext]_vars

\* ------------------------------------------------ main() with progress
\* main() is one coroutine and asyncio.run (line 778) runs it until it
\* returns or raises: while a step of main() is possible, one is taken.
\* Every call of Next returns: Spec has no step that waits for ever.
\* The runs checked for progress: those of the configurations within a
\* smaller work bound.
MaxFairWork == 4
FairInit == Init /\ Work(config) <= MaxFairWork
FairSpec == FairInit /\ [][Next]_vars /\ WF_vars(Next)

\* ------------------------------------------- main() and the feature round
\* main() run with any feature round from 0 to one past the largest
\* iteration_limit (line 659 reads it from the configuration unchecked) and
\* with no request, an empty request or a request (line 652), within the
\* smaller work bound.
FeatureRounds == 0..(MaxIter + 1)
FeatureConfigs ==
    { [c EXCEPT !.feature_addition_round = r] :
          c \in { d \in Configs : Work(d) <= MaxFairWork }, r \in FeatureRounds }

FeatureInit ==
    /\ config \in FeatureConfigs
    /\ feature_request \in {None, EmptyStr, Str(<<"subtract">>)}
    /\ bug_check_llms \in { [k \in 1..n |-> k] : n \in 1..MaxPool }
    /\ pc = "generate"
    /\ code = None
    /\ i = 0
    /\ check_num = 0
    /\ bug_checker_index = 0
    /\ bug_checker = 0
    /\ bug_report = None
    /\ quality_score = Unbound
    /\ complexity_score = Unbound
    /\ performance_score_val = Unbound
    /\ documentation_score_val = Unbound
    /\ docker_result = "none"
    /\ stage_report = None
    /\ call_arg = None
    /\ exit_code = NoExit
    /\ exception = "none"
    /\ code_versions = <<>>
    /\ complexity_metrics = <<>>
    /\ bug_reports = <<>>
    /\ performance_checks = <<>>
    /\ documentation_checks = <<>>
    /\ refactorings = <<>>
    /\ calls = [c \in {"generate", "check_bugs", "fix_bugs", "check_performance",
                       "check_documentation", "refactor", "sandbox"} |-> 0]
    /\ rotation_calls = <<>>
    /\ log_records = 0
    /\ log_tasks = {}
    /\ logs = {}

FeatureSpec == FeatureInit /\ [][Next]_vars

\* ------------------------------------------------------------ claims
LedgerEmpty ==
    /\ code_versions = <<>>
    /\ complexity_metrics = <<>>
    /\ bug_reports = <<>>
    /\ performance_checks = <<>>
    /\ documentation_checks = <<>>
    /\ refactorings = <<>>

StageCalls == {"check_bugs", "fix_bugs", "check_performance",
               "check_documentation", "refactor", "sandbox"}

\* main() has ended, by a return or by an exception.
Ended == pc \in {"returned", "raised"}

\* C1: when generate(initial_prompt) returns no artifact, main() returns
\* EXIT_FAILURE in that step with every ledger table still empty and no
\* detection, fix, performance, documentation, refactor or sandbox call
\* made, and nothing runs after the return.
C1_GenerationFailureEndsRun ==
    [][ /\ (pc = "generate" /\ Falsy(code')) =>
              /\ pc' = "returned"
              /\ exit_code' = EXIT_FAILURE
              /\ LedgerEmpty'
              /\ \A c \in StageCalls : calls'[c] = 0
        /\ pc = "returned" => FALSE ]_vars

C1_Witness ==
    /\ pc = "returned"
    /\ exit_code = EXIT_FAILURE
    /\ Falsy(code)
    /\ calls["generate"] = 1
    /\ calls["fix_bugs"] = 0

\* C2: a detection that returns no findings (None or "") is not followed by
\* a fix call or a stored bug report in its sub-round: the step leaves the
\* bug_reports table, the number of fix calls and the artifact as they were
\* and goes on to the next sub-round or to the stages after the sub-rounds.
C2_NoFindingsNoFix ==
    [][ /\ (pc = "detect" /\ pc' # "raised" /\ Falsy(bug_report')) =>
              /\ pc' # "fix"
              /\ pc' \in {"detect", "performance", "documentation",
                          "refactor", "feature", "sandbox"}
              /\ bug_reports' = bug_reports
              /\ calls'["fix_bugs"] = calls["fix_bugs"]
              /\ code' = code
        /\ pc = "fix" =>
              /\ Truthy(bug_report)
              /\ bug_reports # <<>>
              /\ bug_reports[Len(bug_reports)].report = bug_report ]_vars

C2_Witness ==
    /\ pc = "detect"
    /\ check_num = 1
    /\ calls["check_bugs"] = 1
    /\ Falsy(bug_report)
    /\ calls["fix_bugs"] = 0
    /\ bug_reports = <<>>
    /\ code = Str(TextA)

\* C3 as claimed: the fix call aborts the run with EXIT_FAILURE if and only
\* if it returns None; any returned str, the empty one included, becomes the
\* current artifact and the iteration goes on.
C3_AbortIffNone ==
    [][ pc = "fix" =>
            /\ ((pc' = "returned" /\ exit_code' = EXIT_FAILURE) <=> code'.isNone)
            /\ (~code'.isNone => (~Ended' /\ exit_code' = NoExit)) ]_vars

\* C3 as amended: the fix call aborts the run with EXIT_FAILURE if and only
\* if it returns None or the empty text; any non-empty text it returns,
\* changed or unchanged, becomes the current artifact and the iteration goes
\* on with the next sub-round or the stages after the sub-rounds.
C3_AbortIffNoneOrEmpty ==
    [][ pc = "fix" =>
            /\ ((pc' = "returned" /\ exit_code' = EXIT_FAILURE) <=> Falsy(code'))
            /\ Truthy(code') =>
                  /\ pc' \in {"detect", "performance", "documentation",
                              "refactor", "feature", "sandbox"}
                  /\ exit_code' = NoExit
                  /\ exception' = "none" ]_vars

C3_Witness ==
    /\ pc = "returned"
    /\ exit_code = EXIT_FAILURE
    /\ code = EmptyStr
    /\ calls["fix_bugs"] = 1

\* C4: a fix call that returns its input unchanged does not change the exit
\* status of the run: the run does not end in that step.
C4_UnchangedFixNotFatal ==
    [][ (pc = "fix" /\ code' = code) =>
            (exit_code' = exit_code /\ ~Ended') ]_vars

\* C5: a feature injection whose generate() call returns no artifact leaves
\* the artifact as it was before the attempt, so after the feature step the
\* artifact is the one from before or a generated one, and that is what the
\* sandbox step receives.
C5_FailedInjectionKeepsArtifact ==
    [][ pc = "feature" =>
            /\ (Falsy(code') => code' = code)
            /\ pc' = "sandbox" ]_vars

\* C6: when docker.from_env() reports the backend unavailable, main()
\* returns EXIT_DOCKER_UNAVAILABLE in that step, writes nothing and calls
\* nothing more; nothing runs after the return; and that status is returned
\* by no other step.
C6_UnavailableHalts ==
    [][ /\ (pc = "sandbox" /\ docker_result' = "unavailable") =>
              /\ pc' = "returned"
              /\ exit_code' = EXIT_DOCKER_UNAVAILABLE
              /\ UNCHANGED << ledger, calls, locals >>
        /\ exit_code' = EXIT_DOCKER_UNAVAILABLE =>
              (pc = "sandbox" /\ docker_result' = "unavailable")
        /\ pc = "returned" => FALSE ]_vars

C6_Witness ==
    /\ pc = "returned"
    /\ exit_code = EXIT_DOCKER_UNAVAILABLE
    /\ docker_result = "unavailable"
    /\ config.iteration_limit = 2
    /\ i = 0
    /\ Len(code_versions) >= 1

\* C7: a failed sandbox verdict does not end the run: the step goes on to
\* the next iteration when one is left and to the end of the loop
\* otherwise, as it does after an ok verdict, with no exit status set.
C7_FailedVerdictNotFatal ==
    [][ (pc = "sandbox" /\ docker_result' = "failed") =>
            /\ exit_code' = NoExit
            /\ exception' = "none"
            /\ IF i + 1 < config.iteration_limit
               THEN pc' = "score" /\ i' = i + 1
               ELSE pc' = "complete" ]_vars

C7_Witness ==
    /\ pc = "score"
    /\ i = 1
    /\ docker_result = "failed"
    /\ Truthy(code)

\* C8: main() returns 0 exactly when the loop has run all its iterations, 1
\* exactly when the initial generation or a fix returned no artifact, and 2
\* exactly when the sandbox backend was unavailable; the end of the loop is
\* reached only after every iteration 1..iteration_limit has finished its
\* sandbox step.
C8_ExitStatus ==
    /\ [](/\ pc = "complete" => calls["sandbox"] = config.iteration_limit
          /\ exit_code = EXIT_SUCCESS =>
                /\ pc = "returned"
                /\ calls["sandbox"] = config.iteration_limit
                /\ \A k \in 1..config.iteration_limit :
                      \E n \in 1..Len(code_versions) :
                          code_versions[n].iteration = k
          /\ (config.iteration_limit >= 1
                /\ calls["sandbox"] = config.iteration_limit) =>
                (pc = "complete" \/ (pc = "returned" /\ exit_code = EXIT_SUCCESS))
          /\ pc = "returned" =>
                exit_code \in {EXIT_SUCCESS, EXIT_FAILURE, EXIT_DOCKER_UNAVAILABLE})
    /\ [][ /\ exit_code' # exit_code => (exit_code = NoExit /\ pc' = "returned")
           /\ (exit_code' = EXIT_SUCCESS /\ exit_code = NoExit) <=>
                 pc = "complete"
           /\ (exit_code' = EXIT_FAILURE /\ exit_code = NoExit) <=>
                 (pc \in {"generate", "fix"} /\ Falsy(code'))
           /\ (exit_code' = EXIT_DOCKER_UNAVAILABLE /\ exit_code = NoExit) <=>
                 (pc = "sandbox" /\ docker_result' = "unavailable") ]_vars

C8_Witness ==
    /\ pc = "returned"
    /\ exit_code = EXIT_SUCCESS
    /\ config.iteration_limit = 2
    /\ calls["sandbox"] = 2
    /\ Len(code_versions) >= 2

\* C9: every fatal error (no artifact from the initial generation or from a
\* fix, an unavailable sandbox backend, a rotation-policy error) ends the
\* run by main() returning status 1 or 2, not by an exception leaving main().
C9_FatalErrorsReturnStatus ==
    [][ ( \/ (pc \in {"generate", "fix"} /\ Falsy(code'))
          \/ (pc = "sandbox" /\ docker_result' = "unavailable")
          \/ (pc = "detect"
                /\ RotationRaises(bug_check_llms, config.llm_rotation_strategy)) )
        => /\ pc' = "returned"
           /\ exit_code' \in {EXIT_FAILURE, EXIT_DOCKER_UNAVAILABLE}
           /\ exception' = "none" ]_vars

\* C10: with an unrecognized rotation strategy in the configuration the run
\* fails before the loop: no artifact is generated, no version record is
\* written, no iteration begins, and the run does not succeed.
C10_UnknownStrategyFailsBeforeLoop ==
    config.llm_rotation_strategy \notin Strategies =>
        /\ calls["generate"] = 0
        /\ code_versions = <<>>
        /\ pc \in {"generate", "returned", "raised"}
        /\ exit_code # EXIT_SUCCESS

\* C11: under round_robin a call of get_next_bug_checker returns the index
\* (current_index + 1) mod len(pool) and the checker at that index; so on the
\* pool [D1, D2] from index 0 the first three calls return D2 with index 1,
\* D1 with index 0, D2 with index 1, and on every pool of more than one
\* checker the first call from index 0 returns the second checker.
C11_RoundRobinAdvancesThenUses ==
    /\ [][ (pc = "detect" /\ bug_check_llms # <<>>
             /\ config.llm_rotation_strategy = LLM_ROTATION_ROUND_ROBIN) =>
              /\ bug_checker_index' =
                     (bug_checker_index + 1) % Len(bug_check_llms)
              /\ bug_checker' = bug_check_llms[bug_checker_index' + 1]
              /\ pc' = "detect" ]_vars
    /\ []( (config.llm_rotation_strategy = LLM_ROTATION_ROUND_ROBIN
             /\ rotation_calls # <<>>
             /\ rotation_calls[1].current_index = 0) =>
              /\ Len(bug_check_llms) > 1 =>
                     rotation_calls[1].checker = bug_check_llms[2]
              /\ bug_check_llms = <<1, 2>> =>
                     \A k \in 1..Min(3, Len(rotation_calls)) :
                         /\ rotation_calls[k].checker = <<2, 1, 2>>[k]
                         /\ rotation_calls[k].index = <<1, 0, 1>>[k] )

C11_Witness ==
    /\ config.llm_rotation_strategy = LLM_ROTATION_ROUND_ROBIN
    /\ bug_check_llms = <<1, 2>>
    /\ Len(rotation_calls) = 3
    /\ rotation_calls[1].current_index = 0
    /\ rotation_calls[3].checker = 2
    /\ bug_checker_index = 1

\* The calls were made under round_robin on a pool of n checkers, the first
\* with index 0.
RoundRobinFromFresh(n) ==
    /\ config.llm_rotation_strategy = LLM_ROTATION_ROUND_ROBIN
    /\ Len(bug_check_llms) = n
    /\ rotation_calls # <<>>
    /\ rotation_calls[1].current_index = 0

\* C12: under round_robin on a pool of N checkers, from index 0, the first N
\* calls in a row return every checker of the pool exactly once, in an order
\* fixed by the pool alone (call k returns the checker at k mod N), and call
\* k + N returns the checker call k returned.
C12_RoundRobinPermutationPeriodN ==
    \A n \in 1..MaxPool : RoundRobinFromFresh(n) =>
        /\ Len(rotation_calls) >= n =>
              /\ { rotation_calls[k].checker : k \in 1..n } =
                     { bug_check_llms[k] : k \in 1..n }
              /\ \A j, k \in 1..n :
                     rotation_calls[j].checker = rotation_calls[k].checker
                        => j = k
        /\ \A k \in 1..Len(rotation_calls) :
              /\ rotation_calls[k].checker = bug_check_llms[(k % n) + 1]
              /\ k + n <= Len(rotation_calls) =>
                     rotation_calls[k + n].checker = rotation_calls[k].checker

C12_Witness ==
    /\ RoundRobinFromFresh(2)
    /\ Len(rotation_calls) = 4
    /\ rotation_calls[1].checker = 2
    /\ rotation_calls[2].checker = 1
    /\ rotation_calls[3].checker = 2
    /\ rotation_calls[4].checker = 1

\* C13: the rotation index is 0 before the first detection call and is
\* changed by no step but a detection call, which makes one call of
\* get_next_bug_checker with the index the call before it left, whatever
\* sub-round or iteration that call was in; so under round_robin the k-th
\* detection call of the run uses the checker at k mod N, and the start of
\* an iteration leaves the index as it is.
C13_CursorPersistsAcrossIterations ==
    /\ [][ /\ bug_checker_index' # bug_checker_index => pc = "detect"
           /\ bug_checker' # bug_checker => pc = "detect"
           /\ (pc = "detect" /\ pc' # "raised") =>
                 /\ calls'["check_bugs"] = calls["check_bugs"] + 1
                 /\ config.llm_rotation_strategy = LLM_ROTATION_ROUND_ROBIN =>
                       /\ bug_checker_index' =
                              (bug_checker_index + 1) % Len(bug_check_llms)
                       /\ bug_checker' = bug_check_llms[bug_checker_index' + 1]
           /\ i' # i => bug_checker_index' = bug_checker_index ]_vars
    /\ [](/\ calls["check_bugs"] = 0 => bug_checker_index = 0
          /\ (config.llm_rotation_strategy = LLM_ROTATION_ROUND_ROBIN
                 /\ calls["check_bugs"] > 0) =>
                /\ bug_checker_index =
                       calls["check_bugs"] % Len(bug_check_llms)
                /\ bug_checker =
                       bug_check_llms[(calls["check_bugs"]
                                          % Len(bug_check_llms)) + 1])

C13_Witness ==
    /\ config.llm_rotation_strategy = LLM_ROTATION_ROUND_ROBIN
    /\ config.bug_checks_per_iteration = 1
    /\ Len(bug_check_llms) = 2
    /\ i = 1
    /\ calls["check_bugs"] = 2
    /\ bug_checker = bug_check_llms[1]
    /\ bug_checker_index = 0

\* C14: under fixed every call of get_next_bug_checker returns the first
\* checker of the pool, whatever index it was given and however many calls
\* came before; under fixed and under random the index is 0 after every
\* call; and under every strategy the index after a call is at least 0 and
\* less than the size of the pool, and the checker is one of the pool.
C14_FixedFirstAndIndexInRange ==
    \A k \in 1..Len(rotation_calls) :
        /\ config.llm_rotation_strategy = LLM_ROTATION_FIXED =>
              rotation_calls[k].checker = bug_check_llms[1]
        /\ config.llm_rotation_strategy
              \in {LLM_ROTATION_FIXED, LLM_ROTATION_RANDOM} =>
              rotation_calls[k].index = 0
        /\ rotation_calls[k].index \in 0..(Len(bug_check_llms) - 1)
        /\ \E n \in 1..Len(bug_check_llms) :
              rotation_calls[k].checker = bug_check_llms[n]
        /\ k = Len(rotation_calls) =>
              /\ bug_checker_index = rotation_calls[k].index
              /\ bug_checker = rotation_calls[k].checker

C14_Witness ==
    /\ config.llm_rotation_strategy = LLM_ROTATION_FIXED
    /\ Len(bug_check_llms) = 2
    /\ Len(rotation_calls) = 3
    /\ rotation_calls[1].current_index = Len(bug_check_llms)
    /\ rotation_calls[3].checker = bug_check_llms[1]
    /\ bug_checker_index = 0

\* C15: a call of get_next_bug_checker with an empty pool, under any
\* strategy, or with a strategy other than fixed, random and round_robin, on
\* any pool, raises and returns nothing: no checker is selected and the
\* index is left as it was; every other call returns a checker of the pool.
C15_RotationFailsOnEmptyOrUnknown ==
    /\ [][ pc = "detect" =>
              IF \/ bug_check_llms = <<>>
                 \/ config.llm_rotation_strategy \notin
                       {LLM_ROTATION_FIXED, LLM_ROTATION_RANDOM,
                        LLM_ROTATION_ROUND_ROBIN}
              THEN /\ pc' = "raised"
                   /\ exception' = "ValueError"
                   /\ UNCHANGED << bug_checker, bug_checker_index,
                                   rotation_calls >>
              ELSE /\ pc' = "detect"
                   /\ exception' = "none"
                   /\ Len(rotation_calls') = Len(rotation_calls) + 1
                   /\ \E n \in 1..Len(bug_check_llms) :
                         bug_checker' = bug_check_llms[n] ]_vars
    /\ []( ( \/ bug_check_llms = <<>>
             \/ config.llm_rotation_strategy \notin
                   {LLM_ROTATION_FIXED, LLM_ROTATION_RANDOM,
                    LLM_ROTATION_ROUND_ROBIN} ) =>
              (rotation_calls = <<>> /\ bug_checker = 0) )

C15_Witness ==
    /\ pc = "raised"
    /\ exception = "ValueError"
    /\ bug_check_llms = <<>>
    /\ config.llm_rotation_strategy = LLM_ROTATION_ROUND_ROBIN
    /\ rotation_calls = <<>>

\* The place of a step of an iteration in the order the claim gives.
StageRank(p) ==
    CASE p = "score" -> 1
      [] p \in {"detect", "fix"} -> 2
      [] p = "performance" -> 3
      [] p = "documentation" -> 4
      [] p = "refactor" -> 5
      [] p = "feature" -> 6
      [] p = "sandbox" -> 7
      [] OTHER -> 8

\* Whether the configuration asks for the step of rank r in iteration iter
\* (counted from 0).
StageAsked(r, iter) ==
    CASE r = 2 -> config.bug_checks_per_iteration > 0
      [] r = 3 -> config.enable_performance_check
      [] r = 4 -> config.enable_documentation_check
      [] r = 5 -> config.enable_refactoring
      [] r = 6 -> /\ iter + 1 = config.feature_addition_round
                  /\ Truthy(feature_request)
      [] OTHER -> TRUE

\* C16: within an iteration the steps run in the order score, detection and
\* fix sub-rounds, performance, documentation, refactor, feature injection,
\* sandbox: a step is entered only when the configuration asks for it, no
\* step that is asked for is passed over, the sub-rounds are left only after
\* the last of them, and only the sandbox step starts a new iteration.  The
\* score step writes the version record and the complexity record of the
\* unchanged artifact, and the artifact is replaced in an iteration only
\* after these records of the iteration are written.
C16_StageOrder ==
    [][ /\ (StageRank(pc) <= 7 /\ StageRank(pc') <= 7 /\ i' = i) =>
              /\ StageRank(pc') >= StageRank(pc)
              /\ StageRank(pc') = StageRank(pc) => StageRank(pc) = 2
              /\ StageAsked(StageRank(pc'), i)
              /\ \A r \in 2..6 :
                    (StageRank(pc) < r /\ r < StageRank(pc')) =>
                        ~StageAsked(r, i)
              /\ (StageRank(pc) = 2 /\ StageRank(pc') > 2) =>
                    check_num + 1 = config.bug_checks_per_iteration
        /\ i' # i => (pc = "sandbox" /\ pc' = "score" /\ i' = i + 1)
        /\ pc' = "score" => pc \in {"generate", "sandbox"}
        /\ (pc = "score" /\ pc' # "raised") =>
              /\ code' = code
              /\ Len(code_versions') = Len(code_versions) + 1
              /\ code_versions'[Len(code_versions')].iteration = i + 1
              /\ code_versions'[Len(code_versions')].code = code
              /\ code_versions'[Len(code_versions')].quality_score =
                     calculate_code_quality(code.lines)
              /\ Len(complexity_metrics') = Len(complexity_metrics) + 1
              /\ complexity_metrics'[Len(complexity_metrics')].iteration = i + 1
        /\ code' # code =>
              /\ pc \in {"generate", "fix", "feature"}
              /\ pc # "generate" =>
                    /\ \E n \in 1..Len(code_versions) :
                          code_versions[n].iteration = i + 1
                    /\ \E n \in 1..Len(complexity_metrics) :
                          complexity_metrics[n].iteration = i + 1 ]_vars

C16_Witness ==
    /\ pc = "sandbox"
    /\ i = 0
    /\ config.bug_checks_per_iteration = 2
    /\ calls["check_bugs"] = 2
    /\ calls["fix_bugs"] = 2
    /\ calls["check_performance"] = 1
    /\ calls["check_documentation"] = 1
    /\ calls["refactor"] = 1
    /\ calls["generate"] = 2
    /\ Len(code_versions) = 3

\* C17: a version record written in iteration i carries a performance score
\* exactly when the performance stage has run in iteration i before the
\* write, and a documentation score exactly when the documentation stage
\* has; and the documentation stage does not depend on the performance
\* stage: it always completes with its version record written, and with
\* the performance stage disabled that record has no performance score.
C17_StageScoresPresentIffStageRan ==
    [][ /\ Len(code_versions') > Len(code_versions) =>
              LET rec == code_versions'[Len(code_versions')]
              IN  /\ rec.iteration = i + 1
                  /\ rec.performance_score # NoneScore <=>
                        \E n \in 1..Len(performance_checks') :
                            performance_checks'[n].iteration = i + 1
                  /\ rec.documentation_score # NoneScore <=>
                        \E n \in 1..Len(documentation_checks') :
                            documentation_checks'[n].iteration = i + 1
        /\ pc = "documentation" =>
              /\ pc' \notin {"raised", "returned"}
              /\ Len(code_versions') = Len(code_versions) + 1
              /\ ~config.enable_performance_check =>
                    code_versions'[Len(code_versions')].performance_score
                       = NoneScore ]_vars

\* The performance outcomes stored for iteration k, and the version records
\* of iteration k the performance stage wrote.
PerformanceChecksOf(k) ==
    { n \in 1..Len(performance_checks) : performance_checks[n].iteration = k }

PerformanceVersionsOf(k) ==
    { n \in 1..Len(code_versions) :
        /\ code_versions[n].iteration = k
        /\ code_versions[n].performance_score # NoneScore
        /\ code_versions[n].documentation_score = NoneScore }

\* C18: with the performance stage enabled, the stage stores in each
\* iteration one performance outcome and one version record, whose
\* performance score is 100 when check_performance returned None or "" and
\* 50 when it returned anything else; no version record holds any other
\* performance score, and with the stage disabled nothing of it is stored.
C18_PerformanceScoreTwoValued ==
    /\ [][ /\ pc = "performance" =>
                 LET rec == code_versions'[Len(code_versions')]
                 IN  /\ config.enable_performance_check
                     /\ Len(performance_checks') = Len(performance_checks) + 1
                     /\ performance_checks'[Len(performance_checks')].iteration
                           = i + 1
                     /\ Len(code_versions') = Len(code_versions) + 1
                     /\ rec.iteration = i + 1
                     /\ rec.code = code
                     /\ rec.documentation_score = NoneScore
                     /\ rec.performance_score =
                           (IF stage_report' \in {None, EmptyStr}
                            THEN PerformancePass ELSE PerformanceIssues)
           /\ performance_checks' # performance_checks => pc = "performance"
         ]_vars
    /\ [](/\ \A n \in 1..Len(code_versions) :
                code_versions[n].performance_score
                   \in {NoneScore, PerformancePass, PerformanceIssues}
          /\ ~config.enable_performance_check =>
                (performance_checks = <<>> /\ PerformanceVersionsOf(i + 1) = {})
          /\ config.enable_performance_check =>
                /\ \A k \in 1..i :
                      /\ Cardinality(PerformanceChecksOf(k)) = 1
                      /\ Cardinality(PerformanceVersionsOf(k)) = 1
                /\ pc \in {"documentation", "refactor", "feature", "sandbox"} =>
                      /\ Cardinality(PerformanceChecksOf(i + 1)) = 1
                      /\ Cardinality(PerformanceVersionsOf(i + 1)) = 1
                /\ pc \in {"score", "detect", "fix", "performance"} =>
                      /\ PerformanceChecksOf(i + 1) = {}
                      /\ PerformanceVersionsOf(i + 1) = {})

C18_Witness ==
    /\ config.enable_performance_check
    /\ i = 1
    /\ stage_report = EmptyStr
    /\ Len(performance_checks) = 2
    /\ performance_checks[1].report = Str(<<"issue">>)
    /\ Cardinality(PerformanceVersionsOf(1)) = 1
    /\ Cardinality(PerformanceVersionsOf(2)) = 1
    /\ code_versions[Len(code_versions)].performance_score = PerformancePass

\* C19: the artifact is assigned only by the initial generation, by a fix
\* call and by feature injection: the score step, a detection, the
\* performance, documentation and refactor stages and the sandbox step
\* leave it as it is; and the refactor stage leaves the four scores, the
\* version records and the complexity records as they are.
C19_ArtifactFrame ==
    [][ /\ code' # code => pc \in {"generate", "fix", "feature"}
        /\ pc \in {"score", "detect", "performance", "documentation",
                    "refactor", "sandbox", "complete"} => code' = code
        /\ pc = "refactor" =>
              UNCHANGED << quality_score, complexity_score,
                           performance_score_val, documentation_score_val,
                           code_versions, complexity_metrics,
                           performance_checks, documentation_checks >> ]_vars

C19_Witness ==
    /\ pc \in {"feature", "sandbox"}
    /\ calls["refactor"] = 1
    /\ stage_report = Str(<<"issue">>)
    /\ Len(refactorings) = 1
    /\ calls["check_bugs"] = 1
    /\ calls["fix_bugs"] = 0
    /\ code = Str(TextA)
    /\ quality_score = calculate_code_quality(TextA)

\* rows is what later is a start of.
IsPrefix(rows, later) ==
    /\ Len(rows) <= Len(later)
    /\ \A n \in 1..Len(rows) : later[n] = rows[n]

\* C20: every step leaves every row of every ledger table in place and
\* unchanged: a table after a step is the table before it with rows added
\* at its end; and the step that ends the run on a failed fix or on an
\* unavailable sandbox backend leaves the ledger as it is.
C20_LedgerAppendOnly ==
    [][ /\ IsPrefix(code_versions, code_versions')
        /\ IsPrefix(complexity_metrics, complexity_metrics')
        /\ IsPrefix(bug_reports, bug_reports')
        /\ IsPrefix(performance_checks, performance_checks')
        /\ IsPrefix(documentation_checks, documentation_checks')
        /\ IsPrefix(refactorings, refactorings')
        /\ (pc \in {"fix", "sandbox"} /\ pc' = "returned") =>
              ledger' = ledger ]_vars

C20_Witness ==
    /\ pc = "returned"
    /\ exit_code = EXIT_FAILURE
    /\ calls["fix_bugs"] >= 1
    /\ i = 1
    /\ Len(code_versions) = 3
    /\ code_versions[2].performance_score # NoneScore
    /\ Len(bug_reports) >= 1
    /\ Len(performance_checks) = 1

\* C21: an agent call that has not returned within its timeout does not
\* hold the run: from the state in which main() awaits such a call a step
\* is possible (the stage is taken as failed and the loop goes on), so the
\* run is never left waiting for good.
C21_TimedOutCallDoesNotBlock ==
    pc = "awaiting" => ENABLED AwaitNext

\* C22: when main() has returned and the event loop has shut down, every
\* log record given to the handlers during the run is in the logs table:
\* none is pending and none is lost, the record logged last included.
C22_LogsDrainedAtExit ==
    pc = "returned" =>
        /\ log_tasks = {}
        /\ logs = 1..log_records

\* The text has a leading docstring: the line calculate_code_quality looks
\* at for it, the second, is there and opens one.
HasLeadingDocstring(ls) == Len(ls) >= 2 /\ ls[2].doc

HasInlineComment(ls) == \E k \in 1..Len(ls) : ls[k].hash

\* The score the claim gives a text, in tenths.
ClaimedQuality(ls) ==
    LET raw == 1000
               - 5 * Cardinality({ k \in 1..Len(ls) : ls[k].len > 80 })
               - (IF HasLeadingDocstring(ls) THEN 0 ELSE 20)
               - (IF HasInlineComment(ls) THEN 0 ELSE 10)
    IN  IF raw < 0 THEN 0 ELSE IF raw > 1000 THEN 1000 ELSE raw

\* C23: for every text, the empty one included, the quality score is 100
\* less 0.5 for each line of more than 80 characters, less 2.0 if the text
\* has no leading docstring, less 1.0 if no line holds a comment, clamped to
\* [0, 100]; a text of three lines with one line of 90 characters, no
\* docstring and no comment scores 96.5.
C23_QualityScoreFormula ==
    pc = "scored" =>
        /\ quality_score = ClaimedQuality(code.lines)
        /\ quality_score \in 0..1000
        /\ code.lines = << Line(27, FALSE, FALSE, 0), Line(27, FALSE, FALSE, 0),
                           Line(90, FALSE, FALSE, 1) >> => quality_score = 965

\* The place of a severity in the order Major > Minor > Info > Unknown.
SeverityRank(t) ==
    CASE t = "Major" -> 3
      [] t = "Minor" -> 2
      [] t = "Info" -> 1
      [] OTHER -> 0

\* C24: the severity stored with a bug report is the highest of the
\* severities its findings carry, in the order Major > Minor > Info >
\* Unknown: it is Unknown exactly when no finding carries a Major, Minor or
\* Info tag; and a report with no finding is not stored.
C24_SeverityIsHighestPresent ==
    pc = "stored" =>
        IF Falsy(bug_report) THEN bug_reports = <<>>
        ELSE /\ Len(bug_reports) = 1
             /\ bug_reports[1].report = bug_report
             /\ bug_reports[1].severity \in {"Major", "Minor", "Info", "Unknown"}
             /\ \A k \in 1..Len(bug_report.lines) :
                   SeverityRank(bug_reports[1].severity)
                      >= SeverityRank(bug_report.lines[k])
             /\ bug_reports[1].severity # "Unknown" =>
                   \E k \in 1..Len(bug_report.lines) :
                       bug_report.lines[k] = bug_reports[1].severity
             /\ bug_reports[1].severity = "Unknown" <=>
                   \A k \in 1..Len(bug_report.lines) :
                       bug_report.lines[k] \notin {"Major", "Minor", "Info"}

C24_Witness ==
    /\ pc = "stored"
    /\ bug_report = Str(<<"Info", "Major", "Minor">>)
    /\ Len(bug_reports) = 1
    /\ bug_reports[1].severity = "Major"

\* C25: fix_bugs called with the empty bug report returns a text identical
\* to the one it was given, line ends included, for every text, when the
\* failure is simulated and when it is not.
C25_EmptyReportFixIsIdentity ==
    [][ (pc = "fix_bugs" /\ bug_report = EmptyStr) =>
            /\ code' = code
            /\ pc' \in {"failure_simulated", "fixed"} ]_vars

C25_Witness ==
    /\ pc = "fixed"
    /\ bug_report = EmptyStr
    /\ code = Text(<< Line(27, FALSE, FALSE, 0), Line(22, FALSE, TRUE, 0) >>, TRUE)
    /\ calls["fix_bugs"] = 1

\* C26: every version record holds the quality score and the complexity
\* score of the artifact stored in that same record: no record pairs an
\* artifact a fix has changed with the scores of the artifact from before
\* the fix.
C26_VersionScoresMatchArtifact ==
    \A n \in 1..Len(code_versions) :
        /\ code_versions[n].quality_score =
              calculate_code_quality(code_versions[n].code.lines)
        /\ code_versions[n].complexity_score =
              calculate_cyclomatic_complexity(code_versions[n].code.lines)

\* The detection calls made before the check numbered check_num + 1 of the
\* iteration numbered i + 1.
DetectionCallsBefore == i * config.bug_checks_per_iteration + check_num

\* C27: with every agent and sandbox call returning, the run ends; a run that
\* returns success has made iteration_limit iterations, numbered 1 to
\* iteration_limit in this order, each with bug_checks_per_iteration
\* detection calls; the detection calls are made one at a time in the order
\* of their numbers, and each detection call and each fix call is given the
\* artifact the step before it left.
C27_Terminates == <>Ended
C27_IterationsInOrder ==
    /\ \A k \in 1..Len(complexity_metrics) : complexity_metrics[k].iteration = k
    /\ pc = "score" => /\ Len(complexity_metrics) = i
                       /\ calls["check_bugs"] = i * config.bug_checks_per_iteration
    /\ exit_code = EXIT_SUCCESS =>
          /\ Len(complexity_metrics) = config.iteration_limit
          /\ calls["sandbox"] = config.iteration_limit
          /\ calls["check_bugs"] =
                config.iteration_limit * config.bug_checks_per_iteration
C27_CallsInSequence ==
    /\ calls'["check_bugs"] # calls["check_bugs"] =>
          /\ calls'["check_bugs"] = DetectionCallsBefore + 1
          /\ calls'["fix_bugs"] = calls["fix_bugs"]
          /\ call_arg' = code
    /\ calls'["fix_bugs"] # calls["fix_bugs"] =>
          /\ calls'["fix_bugs"] = calls["fix_bugs"] + 1
          /\ call_arg' = code
          /\ code' \in FixOutputs(call_arg')
C27_RunEndsAfterOrderedIterations ==
    /\ C27_Terminates
    /\ []C27_IterationsInOrder
    /\ [][C27_CallsInSequence]_vars

\* C27 witness: a run of two iterations of two detection calls each has
\* returned success, with fixes made on the way.
C27_Witness ==
    /\ exit_code = EXIT_SUCCESS
    /\ config.iteration_limit = 2
    /\ config.bug_checks_per_iteration = 2
    /\ calls["check_bugs"] = 4
    /\ calls["fix_bugs"] > 1
    /\ Len(complexity_metrics) = 2

\* C28: a step other than the initial generation calls generate only as the
\* feature step, in the iteration whose number is feature_addition_round and
\* with a feature request given, and it is the second and last call of
\* generate in the run; a run that has ended with no feature request or with
\* feature_addition_round outside 1..iteration_limit has called generate
\* once.
C28_FeatureCallOnlyWhenDue ==
    (calls'["generate"] # calls["generate"] /\ pc # "generate") =>
        /\ pc = "feature"
        /\ i + 1 = config.feature_addition_round
        /\ Truthy(feature_request)
        /\ calls["generate"] = 1
        /\ calls'["generate"] = 2
C28_GenerateCallsAtEnd ==
    /\ calls["generate"] <= 2
    /\ (Ended /\ (\/ ~Truthy(feature_request)
                  \/ config.feature_addition_round
                        \notin 1..config.iteration_limit)) =>
          calls["generate"] = 1
C28_FeatureInjectionAtMostOnce ==
    /\ [][C28_FeatureCallOnlyWhenDue]_vars
    /\ []C28_GenerateCallsAtEnd

\* C28 witness: the feature call has been made, in the second iteration.
C28_Witness ==
    /\ calls["generate"] = 2
    /\ config.feature_addition_round = 2
    /\ i + 1 = 2
    /\ pc = "sandbox"
    /\ Truthy(feature_request)

====
